---- MODULE Spec2Model ----
(***************************************************************************)
(* Model of ArbitrageEngine (src/src/arbitrage/engine.ts): the start/stop  *)
(* loop, scanOnce with its bounded-concurrency order-book fan-out, and the *)
(* sequential admission and execution of the ranked opportunities.         *)
(*                                                                         *)
(* Every `await` of the source is a point where a coroutine is suspended;  *)
(* one action of the model is the code that runs when that await resumes,  *)
(* up to the next await.  Collaborators (provider, strategy, risk manager, *)
(* executor, decision logger) are the environment: each of their answers,  *)
(* a return value or a throw, is drawn with \E.                            *)
(*                                                                         *)
(* SimpleOrchestrator (src/src/strategies/orchestrator-simple.ts) is       *)
(* modelled next to it: its start/stop and the ticks of its interval timer.*)
(***************************************************************************)
EXTENDS Integers, Sequences, FiniteSets, TLC

VARIABLES
    running,        \* ArbitrageEngine.running
    activeTrades,   \* ArbitrageEngine.activeTrades
    config,         \* ArbitrageEngine.config / decisionLogger presence
    permits,        \* free permits of ArbitrageEngine.orderbookLimiter
    orphans,        \* fetch callbacks still alive after their Promise.all rejected
    task,           \* the coroutines: start() loops and direct scanOnce() calls
    orch,           \* SimpleOrchestrator: isRunning, its interval timers, its ticks
    clock           \* Date.now() and the timing locals of ArbitrageEngine.start

vars == <<running, activeTrades, config, permits, orphans, task, orch, clock>>

----------------------------------------------------------------------------
(* Bounds of the model *)

MaxTasks == 2
\* markets returned by getActiveMarkets in the fan-out specification
MaxMarkets == 7
\* markets returned by getActiveMarkets in the snapshot specification
SnapMaxMarkets == 3
\* markets returned by getActiveMarkets in the other specifications
SeqMaxMarkets == 2
\* opportunities returned by findOpportunities
MaxOpps == 2
\* opportunities returned by findOpportunities in the fair specification
FairMaxOpps == 1
\* opportunities returned by findOpportunities in the trade specification
TradeMaxOpps == 2
\* largest configured maxConcurrentTrades
MaxCap == 2
\* stale callbacks that may be outstanding when a new market list arrives
MaxOrphans == 0
\* executeStrategies() invocations of the orchestrator alive at a time
MaxTicks == 2
\* interval timers of the orchestrator, live or about to be created
MaxTimers == 2
\* largest config.scanIntervalMs, longest scan, latest timer, end of time
MaxInterval == 3
MaxElapsed == 5
MaxLate == 1
MaxNow == 12

(* Program constants *)

\* new Semaphore(6)
SemaphorePermits == 6

Tasks == 1..MaxTasks
Profits == {5, 10}
Outcomes == {"ok", "notfound", "error"}
Statuses == {"submitted", "dry_run", "failed"}

----------------------------------------------------------------------------
(* Data *)

YesTokenId(m) == 2 * m - 1
NoTokenId(m) == 2 * m

\* what the provider answers for a token when the fetch succeeds
ProviderTop(tokenId) == [bestAsk |-> 50 + tokenId, bestBid |-> 40 + tokenId]

ZeroTop == [bestAsk |-> 0, bestBid |-> 0]

NoResult == [top |-> ZeroTop, failed |-> FALSE, thrown |-> FALSE, outcome |-> "none"]

\* mutant: the not-found error is rethrown like any other error
GetOrderBookTopSafeRethrowsNotFound(tokenId, outcome) ==
    IF outcome = "ok"
    THEN [top |-> ProviderTop(tokenId), failed |-> FALSE, thrown |-> FALSE, outcome |-> outcome]
    ELSE [top |-> ZeroTop, failed |-> FALSE, thrown |-> TRUE, outcome |-> outcome]

\* mutant: every provider error is swallowed as a failed side
GetOrderBookTopSafeSwallowsAll(tokenId, outcome) ==
    IF outcome = "ok"
    THEN [top |-> ProviderTop(tokenId), failed |-> FALSE, thrown |-> FALSE, outcome |-> outcome]
    ELSE [top |-> ZeroTop, failed |-> TRUE, thrown |-> FALSE, outcome |-> outcome]

\* getOrderBookTopSafe: the provider's outcome for one token -> the wrapper's result
GetOrderBookTopSafe(tokenId, outcome) ==
    CASE outcome = "ok" ->
           [top |-> ProviderTop(tokenId), failed |-> FALSE, thrown |-> FALSE, outcome |-> outcome]
      [] outcome = "notfound" ->
           [top |-> ZeroTop, failed |-> TRUE, thrown |-> FALSE, outcome |-> outcome]
      [] OTHER ->
           [top |-> ZeroTop, failed |-> FALSE, thrown |-> TRUE, outcome |-> outcome]

\* one per-market callback of the fan-out
\* phase: queued (waiting for a permit), yes / no (that side's fetch in flight),
\*        done (returned its snapshot), threw (rejected)
NewCallback == [phase |-> "queued", yes |-> NoResult, no |-> NoResult]

\* a callback whose result nobody will read: its Promise.all has rejected
Abandoned == [phase |-> "abandoned", yes |-> NoResult, no |-> NoResult]

\* mutant: the two sides' tops are stored under each other's name
SnapshotOfSwapsSides(m, cb) ==
    [marketId |-> m, yesTokenId |-> YesTokenId(m), noTokenId |-> NoTokenId(m),
     yesTop |-> cb.no.top, noTop |-> cb.yes.top]

\* the snapshot a finished callback returned: { ...market, yesTop, noTop }
SnapshotOf(m, cb) ==
    [marketId |-> m, yesTokenId |-> YesTokenId(m), noTokenId |-> NoTokenId(m),
     yesTop |-> cb.yes.top, noTop |-> cb.no.top]

\* opportunities.sort((a, b) => b.estProfitUsd - a.estProfitUsd), a stable sort
RECURSIVE InsertByProfit(_, _)
InsertByProfit(sorted, o) ==
    IF sorted = <<>> THEN <<o>>
    ELSE IF Head(sorted).estProfitUsd >= o.estProfitUsd
         THEN <<Head(sorted)>> \o InsertByProfit(Tail(sorted), o)
         ELSE <<o>> \o sorted

\* mutant: the opportunities are handled in the order the strategy returned them
SortByProfitDescNoSort(opps) == opps

RECURSIVE SortByProfitDesc(_)
SortByProfitDesc(opps) ==
    IF opps = <<>> THEN <<>>
    ELSE InsertByProfit(SortByProfitDesc(SubSeq(opps, 1, Len(opps) - 1)), opps[Len(opps)])

\* an absent (undefined) optional value, and an optional value that is present
Undefined == "<undefined>"
None == <<>>
Some(x) == <<x>>

\* the i-th opportunity of a strategy result, with estimated profit p; id is its
\* place in the strategy's list, the other fields are fixed by i and p
Opportunity(i, p) ==
    [id |-> i, marketId |-> i, yesTokenId |-> YesTokenId(i), noTokenId |-> NoTokenId(i),
     yesAsk |-> 40 + i, noAsk |-> 50 + i, edgeBps |-> 100 * i, estProfitUsd |-> p,
     sizeUsd |-> 10 * p + i, liquidityUsd |-> 1000 + i, spreadBps |-> 20 + i]

\* what the strategy may return: up to n opportunities, any profits, in any order
OpportunityLists(n) ==
    UNION { { [i \in 1..k |-> Opportunity(i, p[i])] : p \in [1..k -> Profits] }
            : k \in 0..n }

\* mutant: the plan carries the two asks in each other's place
ExecutionPlanSwapsAsks(o) ==
    [marketId |-> o.marketId, yesTokenId |-> o.yesTokenId, noTokenId |-> o.noTokenId,
     yesAsk |-> o.noAsk, noAsk |-> o.yesAsk, sizeUsd |-> o.sizeUsd,
     edgeBps |-> o.edgeBps, estProfitUsd |-> o.estProfitUsd]

\* the plan handleOpportunity builds for the executor
ExecutionPlan(o) ==
    [marketId |-> o.marketId, yesTokenId |-> o.yesTokenId, noTokenId |-> o.noTokenId,
     yesAsk |-> o.yesAsk, noAsk |-> o.noAsk, sizeUsd |-> o.sizeUsd,
     edgeBps |-> o.edgeBps, estProfitUsd |-> o.estProfitUsd]

\* reasons a risk decision or an execution result may carry: none, an empty
\* string, a text
DecisionReasons == {Undefined, "", "EXPOSURE_LIMIT"}
ResultReasons == {Undefined, "", "REJECTED"}

\* what executor.execute may return
ExecutionResults ==
    { [status |-> st, reason |-> Undefined, txHashes |-> h] :
         st \in {"submitted", "dry_run"}, h \in {<<>>, <<"0xa", "0xb">>} }
    \cup { [status |-> "failed", reason |-> r, txHashes |-> <<>>] : r \in ResultReasons }

\* mutant: the last transaction hash is recorded
FirstTxHashTakesLast(txHashes) ==
    IF txHashes = <<>> THEN None ELSE Some(txHashes[Len(txHashes)])

\* result.txHashes?.[0]
FirstTxHash(txHashes) == IF txHashes = <<>> THEN None ELSE Some(Head(txHashes))

\* mutant: every record carries the opportunity's size as planned size
DecisionRecordAlwaysSized(o, action, reason, plannedSize, txHash) ==
    [market_id |-> o.marketId, yes_ask |-> o.yesAsk, no_ask |-> o.noAsk,
     edge_bps |-> o.edgeBps, liquidity |-> o.liquidityUsd, spread_bps |-> o.spreadBps,
     est_profit_usd |-> o.estProfitUsd, action |-> action, reason |-> reason,
     planned_size |-> Some(o.sizeUsd), tx_hash |-> txHash,
     status |-> IF action = "trade" THEN "submitted" ELSE "skipped"]

\* mutant: the status of a record follows the executor's status text
DecisionRecordStatusOfReason(o, action, reason, plannedSize, txHash) ==
    [market_id |-> o.marketId, yes_ask |-> o.yesAsk, no_ask |-> o.noAsk,
     edge_bps |-> o.edgeBps, liquidity |-> o.liquidityUsd, spread_bps |-> o.spreadBps,
     est_profit_usd |-> o.estProfitUsd, action |-> action, reason |-> reason,
     planned_size |-> plannedSize, tx_hash |-> txHash,
     status |-> IF reason = "submitted" THEN "submitted" ELSE "skipped"]

\* the record logDecision hands to decisionLogger.append (its ts is left out)
DecisionRecord(o, action, reason, plannedSize, txHash) ==
    [market_id |-> o.marketId, yes_ask |-> o.yesAsk, no_ask |-> o.noAsk,
     edge_bps |-> o.edgeBps, liquidity |-> o.liquidityUsd, spread_bps |-> o.spreadBps,
     est_profit_usd |-> o.estProfitUsd, action |-> action, reason |-> reason,
     planned_size |-> plannedSize, tx_hash |-> txHash,
     status |-> IF action = "trade" THEN "submitted" ELSE "skipped"]

\* the arguments of a logDecision call
DecisionArgs(action, reason, plannedSize, txHash) ==
    [action |-> action, reason |-> reason, plannedSize |-> plannedSize, txHash |-> txHash]

----------------------------------------------------------------------------
(* Coroutines *)

IdleTask ==
    [kind |-> "none", pc |-> "idle", cb |-> <<>>,
     orderbookFailures |-> 0, marketsWithOrderbookFailures |-> 0,
     snapshots |-> <<>>, opps |-> <<>>, idx |-> 1,
     pending |-> DecisionArgs("none", "none", None, None), calls |-> <<>>, err |-> "none"]

\* program locations inside scanOnce
ScanPcs == {"getMarkets", "fetching", "loopHead", "gas", "submitted", "execute",
            "settle", "append"}

Call(op, id, info) == [op |-> op, id |-> id, info |-> info]

\* scanOnce up to its first await: provider.getActiveMarkets() has been called;
\* the log entry of the call remembers activeTrades as the scan found it
BeginScan(s, kind) ==
    [IdleTask EXCEPT !.kind = kind, !.pc = "getMarkets",
                     !.calls = <<Call("getActiveMarkets", 0, activeTrades)>>]

\* mutant: scanOnce has no catch block, the error rejects its promise
CaughtRethrows(s, op) == [s EXCEPT !.pc = "scanRejected", !.err = op]

\* the collaborator calls of handleOpportunity that may throw
OpportunityErrors ==
    {"canExecute", "ensureGasBalance", "onTradeSubmitted", "execute", "onTradeSettled", "append"}

\* mutant: a throw while an opportunity is handled is caught inside the loop,
\* which goes on with the next opportunity
CaughtPerOpportunity(s, op) ==
    IF op \in OpportunityErrors
    THEN [s EXCEPT !.pc = "loopHead", !.idx = @ + 1, !.err = op]
    ELSE [s EXCEPT !.pc = "scanResolved", !.err = op]

\* the catch block of scanOnce: log the message, resolve
Caught(s, op) == [s EXCEPT !.pc = "scanResolved", !.err = op]

Log(s, op, id, info) == [s EXCEPT !.calls = Append(@, Call(op, id, info))]

\* markets, snapshots and the two failure counters are locals of scanOnce that
\* nothing reads once the summary line is logged; the log keeps the place of
\* that line and drops its text with them
ForgetLocals(s) ==
    [s EXCEPT !.cb = <<>>, !.snapshots = <<>>,
              !.orderbookFailures = 0, !.marketsWithOrderbookFailures = 0,
              !.calls = [k \in DOMAIN s.calls |->
                           IF s.calls[k].op = "logger.info"
                           THEN [s.calls[k] EXCEPT !.info = None]
                           ELSE s.calls[k]]]


----------------------------------------------------------------------------
(* Semaphore (./utils/limiter): N permits, with(fn) acquires one, runs fn and   *)
(* releases it when fn returns or throws; callers beyond N wait.  The order in  *)
(* which waiters are served is not fixed.                                       *)

SemCanAcquire == permits > 0
SemAcquire == permits' = permits - 1
SemRelease == permits' = permits + 1

NoOrphans == [queued |-> 0, yes |-> 0, no |-> 0]
OrphanTotal == orphans.queued + orphans.yes + orphans.no

\* the callbacks of s that have not settled yet
Unsettled(s, phase) == {j \in DOMAIN s.cb : s.cb[j].phase = phase}

----------------------------------------------------------------------------
(* start / stop *)

\* a coroutine slot that can take a new call
Free(t) ==
    \/ task[t].pc \in {"idle", "startSkipped", "startResolved"}
    \/ task[t].kind = "direct" /\ task[t].pc = "scanResolved"

\* mutant: start() without the `if (this.running) return` guard
StartCallNoGuard(t) ==
    /\ Free(t)
    /\ running' = TRUE
    /\ task' = [task EXCEPT ![t] = BeginScan(@, "loop")]
    /\ UNCHANGED <<activeTrades, config, orch, clock, permits, orphans>>

\* start(): returns at once when already running; otherwise sets running and
\* enters the loop, whose first scanOnce runs up to its first await
StartCall(t) ==
    /\ Free(t)
    /\ IF running
       THEN /\ task' = [task EXCEPT ![t] = [IdleTask EXCEPT !.kind = "loop",
                                                           !.pc = "startSkipped"]]
            /\ UNCHANGED running
       ELSE /\ running' = TRUE
            /\ task' = [task EXCEPT ![t] = BeginScan(@, "loop")]
    /\ UNCHANGED <<activeTrades, config, orch, clock, permits, orphans>>

\* mutant: stop() also abandons the scan or the sleep in progress
StopCancelsScan ==
    /\ running' = FALSE
    /\ task' = [t \in Tasks |->
                  IF task[t].kind = "loop" /\ task[t].pc \in ScanPcs \cup {"sleep"}
                  THEN [IdleTask EXCEPT !.kind = "loop", !.pc = "startResolved"]
                  ELSE task[t]]
    /\ UNCHANGED <<activeTrades, config, orch, clock, permits, orphans>>

\* stop()
Stop ==
    /\ running' = FALSE
    /\ UNCHANGED <<activeTrades, config, orch, clock, permits, orphans, task>>

\* a direct call of the public scanOnce()
ScanOnceCall(t) ==
    /\ Free(t)
    /\ task' = [task EXCEPT ![t] = BeginScan(@, "direct")]
    /\ UNCHANGED <<running, activeTrades, config, orch, clock, permits, orphans>>

\* mutant: an aborted scan is run again at once
LoopAfterScanRetriesAborted(t) ==
    /\ task[t].kind = "loop"
    /\ task[t].pc = "scanResolved"
    /\ task' = [task EXCEPT ![t] =
                  IF task[t].err # "none" THEN BeginScan(@, "loop")
                  ELSE [IdleTask EXCEPT !.kind = "loop", !.pc = "sleep"]]
    /\ UNCHANGED <<running, activeTrades, config, orch, clock, permits, orphans>>

\* the loop after `await this.scanOnce(startedAt)`: compute waitMs, start the timer
LoopAfterScan(t) ==
    /\ task[t].kind = "loop"
    /\ task[t].pc = "scanResolved"
    /\ task' = [task EXCEPT ![t] = [IdleTask EXCEPT !.kind = "loop", !.pc = "sleep"]]
    /\ UNCHANGED <<running, activeTrades, config, orch, clock, permits, orphans>>

\* mutant: the loop scans again without looking at running
SleepDoneIgnoresRunning(t) ==
    /\ task[t].pc = "sleep"
    /\ task' = [task EXCEPT ![t] = BeginScan(@, "loop")]
    /\ UNCHANGED <<running, activeTrades, config, orch, clock, permits, orphans>>

\* mutant: start() scans once and returns after the sleep
SleepDoneEndsLoop(t) ==
    /\ task[t].pc = "sleep"
    /\ task' = [task EXCEPT ![t] = [IdleTask EXCEPT !.kind = "loop",
                                                    !.pc = "startResolved"]]
    /\ UNCHANGED <<running, activeTrades, config, orch, clock, permits, orphans>>

\* the timer fires: `while (this.running)` is evaluated again
SleepDone(t) ==
    /\ task[t].pc = "sleep"
    /\ IF running
       THEN task' = [task EXCEPT ![t] = BeginScan(@, "loop")]
       ELSE task' = [task EXCEPT ![t] = [IdleTask EXCEPT !.kind = "loop",
                                                         !.pc = "startResolved"]]
    /\ UNCHANGED <<running, activeTrades, config, orch, clock, permits, orphans>>

----------------------------------------------------------------------------
(* scanOnce: market list and order-book fan-out *)

\* `await this.provider.getActiveMarkets()` settles; on success markets.map(...)
\* creates one limiter.with(...) callback per market (up to maxN markets; staleOk
\* says how many callbacks of earlier scans may be alive when the list arrives)
GetActiveMarketsReturn(t, maxN, staleOk) ==
    /\ task[t].pc = "getMarkets"
    /\ \/ /\ staleOk
          /\ \E n \in 0..maxN :
                task' = [task EXCEPT ![t].pc = "fetching",
                                     ![t].cb = [i \in 1..n |-> NewCallback]]
       \/ task' = [task EXCEPT ![t] = Caught(@, "getActiveMarkets")]
    /\ UNCHANGED <<running, activeTrades, config, orch, clock, permits, orphans>>

\* mutant: the callback runs without going through the limiter
LimiterWithNoLimiter(t, i) ==
    /\ task[t].pc = "fetching"
    /\ i \in Unsettled(task[t], "queued")
    /\ task' = [task EXCEPT ![t].cb[i].phase = "yes"]
    /\ UNCHANGED <<running, activeTrades, config, orch, clock, permits, orphans>>

\* this.orderbookLimiter.with(async () => { ... }): the callback of market i gets
\* a permit and calls getOrderBookTopSafe(market.yesTokenId, ...)
LimiterWith(t, i) ==
    /\ task[t].pc = "fetching"
    /\ i \in Unsettled(task[t], "queued")
    /\ SemCanAcquire
    /\ SemAcquire
    /\ task' = [task EXCEPT ![t].cb[i].phase = "yes"]
    /\ UNCHANGED <<running, activeTrades, config, orch, clock, orphans>>

\* mutant: the permit of a throwing callback is not released
RejectKeepsPermit(t, i, side, r) ==
    LET s == task[t]
        others == DOMAIN s.cb \ {i}
        cb2 == [j \in DOMAIN s.cb |->
                  IF j = i THEN [s.cb[j] EXCEPT !.phase = "threw", ![side] = r]
                  ELSE Abandoned]
        count(phase) == Cardinality({j \in others : s.cb[j].phase = phase})
    IN /\ permits' = permits
       /\ orphans' = [queued |-> orphans.queued + count("queued"),
                      yes |-> orphans.yes + count("yes"),
                      no |-> orphans.no + count("no")]
       /\ task' = [task EXCEPT ![t] = Caught([s EXCEPT !.cb = cb2], "getOrderBookTop")]

\* the callback of market i throws: with() releases its permit, Promise.all
\* rejects, scanOnce catches; the other unsettled callbacks keep running
Reject(t, i, side, r) ==
    LET s == task[t]
        others == DOMAIN s.cb \ {i}
        cb2 == [j \in DOMAIN s.cb |->
                  IF j = i THEN [s.cb[j] EXCEPT !.phase = "threw", ![side] = r]
                  ELSE Abandoned]
        count(phase) == Cardinality({j \in others : s.cb[j].phase = phase})
    IN /\ SemRelease
       /\ orphans' = [queued |-> orphans.queued + count("queued"),
                      yes |-> orphans.yes + count("yes"),
                      no |-> orphans.no + count("no")]
       /\ task' = [task EXCEPT ![t] = Caught([s EXCEPT !.cb = cb2], "getOrderBookTop")]

\* `await this.getOrderBookTopSafe(market.yesTokenId, ...)` settles
FetchYesReturn(t, i, outcomes) ==
    /\ task[t].pc = "fetching"
    /\ i \in Unsettled(task[t], "yes")
    /\ \E o \in outcomes :
         LET r == GetOrderBookTopSafe(YesTokenId(i), o)
         IN IF r.thrown
            THEN Reject(t, i, "yes", r)
            ELSE /\ task' = [task EXCEPT ![t].cb[i] = [@ EXCEPT !.phase = "no", !.yes = r]]
                 /\ UNCHANGED <<permits, orphans>>
    /\ UNCHANGED <<running, activeTrades, config, orch, clock>>

\* mutant: a market with two failed sides is counted twice
CountMarketFailuresPerSide(yesFailed, noFailed) ==
    (IF yesFailed THEN 1 ELSE 0) + (IF noFailed THEN 1 ELSE 0)

\* if (hasFailure) marketsWithOrderbookFailures += 1
CountMarketFailures(yesFailed, noFailed) ==
    IF yesFailed \/ noFailed THEN 1 ELSE 0

\* orderbookFailures += (yesResult.failed ? 1 : 0) + (noResult.failed ? 1 : 0)
CountSideFailures(yesFailed, noFailed) ==
    (IF yesFailed THEN 1 ELSE 0) + (IF noFailed THEN 1 ELSE 0)

\* `await this.getOrderBookTopSafe(market.noTokenId, ...)` settles; on success the
\* callback adds to the two counters, returns its snapshot and with() releases
FetchNoReturn(t, i, outcomes) ==
    /\ task[t].pc = "fetching"
    /\ i \in Unsettled(task[t], "no")
    /\ \E o \in outcomes :
         LET r == GetOrderBookTopSafe(NoTokenId(i), o)
             s == task[t]
         IN IF r.thrown
            THEN Reject(t, i, "no", r)
            ELSE /\ task' = [task EXCEPT
                       ![t].cb[i] = [@ EXCEPT !.phase = "done", !.no = r],
                       ![t].marketsWithOrderbookFailures =
                           @ + CountMarketFailures(s.cb[i].yes.failed, r.failed),
                       ![t].orderbookFailures =
                           @ + CountSideFailures(s.cb[i].yes.failed, r.failed)]
                 /\ SemRelease
                 /\ UNCHANGED orphans
    /\ UNCHANGED <<running, activeTrades, config, orch, clock>>

\* a callback whose Promise.all has already rejected gets its permit
OrphanAcquire ==
    /\ orphans.queued > 0
    /\ SemCanAcquire
    /\ SemAcquire
    /\ orphans' = [orphans EXCEPT !.queued = @ - 1, !.yes = @ + 1]
    /\ UNCHANGED <<running, activeTrades, config, orch, clock, task>>

\* ... its YES fetch settles: it goes on to the NO fetch, or throws and releases
OrphanYesReturn ==
    /\ orphans.yes > 0
    /\ \/ /\ orphans' = [orphans EXCEPT !.yes = @ - 1, !.no = @ + 1]
          /\ UNCHANGED permits
       \/ /\ orphans' = [orphans EXCEPT !.yes = @ - 1]
          /\ SemRelease
    /\ UNCHANGED <<running, activeTrades, config, orch, clock, task>>

\* ... its NO fetch settles: the callback ends either way and releases
OrphanNoReturn ==
    /\ orphans.no > 0
    /\ orphans' = [orphans EXCEPT !.no = @ - 1]
    /\ SemRelease
    /\ UNCHANGED <<running, activeTrades, config, orch, clock, task>>

----------------------------------------------------------------------------
(* scanOnce: ranking and the opportunity loop *)

\* mutant: the line names the last opportunity of the list
SummaryLineOfLast(s, opportunities) ==
    [markets |-> IF opportunities = <<>> THEN Some(Len(s.cb)) ELSE None,
     count |-> Len(opportunities),
     top |-> IF opportunities = <<>> THEN None
             ELSE LET top == opportunities[Len(opportunities)]
                  IN Some([marketId |-> top.marketId, edgeBps |-> top.edgeBps,
                           estProfitUsd |-> top.estProfitUsd, sizeUsd |-> top.sizeUsd]),
     orderbookFailures |-> s.orderbookFailures,
     marketsWithOrderbookFailures |-> s.marketsWithOrderbookFailures]

\* what the summary line of a scan says: "Scan complete: 0 opportunities" with
\* the number of markets, or "Found n opportunity(ies)" with market, edge,
\* estimated profit and size of opportunities[0]; both with the two counters
SummaryLine(s, opportunities) ==
    [markets |-> IF opportunities = <<>> THEN Some(Len(s.cb)) ELSE None,
     count |-> Len(opportunities),
     top |-> IF opportunities = <<>> THEN None
             ELSE LET top == opportunities[1]
                  IN Some([marketId |-> top.marketId, edgeBps |-> top.edgeBps,
                           estProfitUsd |-> top.estProfitUsd, sizeUsd |-> top.sizeUsd]),
     orderbookFailures |-> s.orderbookFailures,
     marketsWithOrderbookFailures |-> s.marketsWithOrderbookFailures]

\* Promise.all resolved: strategy.findOpportunities(snapshots, now), the sort,
\* the summary log line
FindOpportunities(t, maxK) ==
    LET s == [task[t] EXCEPT
                !.snapshots = [i \in DOMAIN task[t].cb |-> SnapshotOf(i, task[t].cb[i])]]
    IN /\ task[t].pc = "fetching"
       /\ \A i \in DOMAIN task[t].cb : task[t].cb[i].phase = "done"
       /\ \/ \E found \in OpportunityLists(maxK) :
               LET opportunities == SortByProfitDesc(found)
               IN task' = [task EXCEPT ![t] =
                             [Log(Log(s, "findOpportunities", 0, "return"),
                                  "logger.info", 0, Some(SummaryLine(s, opportunities)))
                                EXCEPT !.opps = opportunities, !.idx = 1,
                                       !.pc = "loopHead"]]
          \/ task' = [task EXCEPT ![t] =
                        Caught(Log(s, "findOpportunities", 0, "throw"), "findOpportunities")]
       /\ UNCHANGED <<running, activeTrades, config, orch, clock, permits, orphans>>

\* mutant: the loop never looks at the admission cap
LoopExhaustedOnly(s) == s.idx > Len(s.opps)

\* the `for` loop ends: no opportunity left, or
\* `if (this.activeTrades >= this.config.maxConcurrentTrades) break`
LoopEnds(s) ==
    \/ s.idx > Len(s.opps)
    \/ activeTrades >= config.maxConcurrentTrades

\* scanOnce returns normally
ScanReturns(t) ==
    /\ task[t].pc = "loopHead"
    /\ LoopEnds(task[t])
    /\ task' = [task EXCEPT ![t] = [ForgetLocals(@) EXCEPT !.pc = "scanResolved"]]
    /\ UNCHANGED <<running, activeTrades, config, orch, clock, permits, orphans>>

\* mutant: the default is used whatever the reason
ReasonOrAlwaysDefault(reason, default) == default

\* decision.reason || 'filtered', result.reason || result.status
ReasonOr(reason, default) == IF reason \in {Undefined, ""} THEN default ELSE reason

\* what riskManager.canExecute answered
RiskDecision(allowed, reason) == [allowed |-> allowed, reason |-> reason, thrown |-> FALSE]
RiskThrew == [allowed |-> FALSE, reason |-> Undefined, thrown |-> TRUE]

\* handleOpportunity up to its first await: riskManager.canExecute(opportunity, now)
\* is synchronous, so the cap check and canExecute happen in one step
HandleOpportunity(t, reasons) ==
    LET s == ForgetLocals(task[t])
        o == s.opps[s.idx]
    IN /\ s.pc = "loopHead"
       /\ ~LoopEnds(s)
       /\ \/ \E reason \in reasons :
               task' = [task EXCEPT ![t] =
                          [Log(s, "canExecute", o.id, RiskDecision(FALSE, reason))
                             EXCEPT !.pending = DecisionArgs("skip", ReasonOr(reason, "filtered"),
                                                             None, None),
                                    !.pc = "append"]]
          \/ task' = [task EXCEPT ![t] =
                        [Log(Log(s, "canExecute", o.id, RiskDecision(TRUE, Undefined)),
                             "ensureGasBalance", o.id, "call")
                           EXCEPT !.pc = "gas"]]
          \/ task' = [task EXCEPT ![t] =
                        Caught(Log(s, "canExecute", o.id, RiskThrew), "canExecute")]
       /\ UNCHANGED <<running, activeTrades, config, orch, clock, permits, orphans>>

\* mutant: a failed gas check does not stop the trade
GasReturnIgnoresGas(t) ==
    LET s == task[t]
        o == s.opps[s.idx]
    IN /\ s.pc = "gas"
       /\ \/ /\ activeTrades' = activeTrades + 1
             /\ task' = [task EXCEPT ![t] =
                           [Log(Log(s, "ensureGasBalance.result", o.id, TRUE),
                                "onTradeSubmitted", o.id, "call") EXCEPT !.pc = "submitted"]]
          \/ /\ activeTrades' = activeTrades + 1
             /\ task' = [task EXCEPT ![t] =
                           [Log(Log(s, "ensureGasBalance.result", o.id, FALSE),
                                "onTradeSubmitted", o.id, "call") EXCEPT !.pc = "submitted"]]
          \/ /\ task' = [task EXCEPT ![t] = Caught(s, "ensureGasBalance")]
             /\ UNCHANGED activeTrades
       /\ UNCHANGED <<running, config, orch, clock, permits, orphans>>

\* mutant: activeTrades is not incremented before onTradeSubmitted
GasReturnNoIncrement(t) ==
    LET s == task[t]
        o == s.opps[s.idx]
    IN /\ s.pc = "gas"
       /\ \/ /\ activeTrades' = activeTrades
             /\ task' = [task EXCEPT ![t] =
                           [Log(Log(s, "ensureGasBalance.result", o.id, TRUE),
                                "onTradeSubmitted", o.id, "call") EXCEPT !.pc = "submitted"]]
          \/ /\ task' = [task EXCEPT ![t] =
                           [Log(s, "ensureGasBalance.result", o.id, FALSE)
                              EXCEPT !.pending = DecisionArgs("skip", "low_gas", None, None),
                                     !.pc = "append"]]
             /\ UNCHANGED activeTrades
          \/ /\ task' = [task EXCEPT ![t] = Caught(s, "ensureGasBalance")]
             /\ UNCHANGED activeTrades
       /\ UNCHANGED <<running, config, orch, clock, permits, orphans>>

\* `await this.riskManager.ensureGasBalance(now)` settles; when ok:
\* this.activeTrades += 1 and riskManager.onTradeSubmitted(...) is called
GasReturn(t) ==
    LET s == task[t]
        o == s.opps[s.idx]
    IN /\ s.pc = "gas"
       /\ \/ /\ activeTrades' = activeTrades + 1
             /\ task' = [task EXCEPT ![t] =
                           [Log(Log(s, "ensureGasBalance.result", o.id, TRUE),
                                "onTradeSubmitted", o.id, "call") EXCEPT !.pc = "submitted"]]
          \/ /\ task' = [task EXCEPT ![t] =
                           [Log(s, "ensureGasBalance.result", o.id, FALSE)
                              EXCEPT !.pending = DecisionArgs("skip", "low_gas", None, None),
                                     !.pc = "append"]]
             /\ UNCHANGED activeTrades
          \/ /\ task' = [task EXCEPT ![t] = Caught(s, "ensureGasBalance")]
             /\ UNCHANGED activeTrades
       /\ UNCHANGED <<running, config, orch, clock, permits, orphans>>

\* `await this.riskManager.onTradeSubmitted(...)` settles; the plan is built and
\* executor.execute(plan, now) is called
SubmittedReturn(t) ==
    LET s == task[t]
        o == s.opps[s.idx]
    IN /\ s.pc = "submitted"
       /\ \/ task' = [task EXCEPT ![t] =
                        [Log(s, "execute", o.id, ExecutionPlan(o)) EXCEPT !.pc = "execute"]]
          \/ task' = [task EXCEPT ![t] = Caught(s, "onTradeSubmitted")]
       /\ UNCHANGED <<running, activeTrades, config, orch, clock, permits, orphans>>

\* mutant: only a submitted result counts as a success
AfterExecuteDryRunFails(s, result) ==
    LET o == s.opps[s.idx]
        got == Log(s, "execute.result", o.id, result)
    IN IF result.status = "submitted"
       THEN [Log(got, "onTradeSuccess", o.id, result.status)
               EXCEPT !.pending = DecisionArgs("trade", result.status,
                                               Some(ExecutionPlan(o).sizeUsd),
                                               FirstTxHash(result.txHashes)),
                      !.pc = "settle"]
       ELSE [Log(got, "onTradeFailure", o.id, ReasonOr(result.reason, result.status))
               EXCEPT !.pending = DecisionArgs("skip", ReasonOr(result.reason, result.status),
                                               None, None),
                      !.pc = "settle"]

\* handleOpportunity from the result of execute to its next await:
\* onTradeSuccess is called for submitted and dry_run, onTradeFailure for any
\* other status, and the arguments of the logDecision call that follows are fixed
AfterExecute(s, result) ==
    LET o == s.opps[s.idx]
        plan == ExecutionPlan(o)
        got == Log(s, "execute.result", o.id, result)
    IN IF result.status \in {"submitted", "dry_run"}
       THEN [Log(got, "onTradeSuccess", o.id, result.status)
               EXCEPT !.pending = DecisionArgs("trade", result.status,
                                               Some(plan.sizeUsd),
                                               FirstTxHash(result.txHashes)),
                      !.pc = "settle"]
       ELSE [Log(got, "onTradeFailure", o.id, ReasonOr(result.reason, result.status))
               EXCEPT !.pending = DecisionArgs("skip", ReasonOr(result.reason, result.status),
                                               None, None),
                      !.pc = "settle"]

\* mutant: activeTrades is not decremented when execute returns
ExecuteReturnNoDecrement(t, results) ==
    LET s == task[t]
    IN /\ s.pc = "execute"
       /\ \/ \E result \in results : task' = [task EXCEPT ![t] = AfterExecute(s, result)]
          \/ task' = [task EXCEPT ![t] = Caught(s, "execute")]
       /\ UNCHANGED <<running, activeTrades, config, orch, clock, permits, orphans>>

\* `await this.executor.execute(plan, now)` settles; on a result:
\* this.activeTrades -= 1, then onTradeSuccess or onTradeFailure is called
ExecuteReturn(t, results) ==
    LET s == task[t]
    IN /\ s.pc = "execute"
       /\ \/ /\ \E result \in results : task' = [task EXCEPT ![t] = AfterExecute(s, result)]
             /\ activeTrades' = activeTrades - 1
          \/ /\ task' = [task EXCEPT ![t] = Caught(s, "execute")]
             /\ UNCHANGED activeTrades
       /\ UNCHANGED <<running, config, orch, clock, permits, orphans>>

\* mutant: the loop moves on without calling and awaiting logDecision
SettleReturnSkipsDecision(t) ==
    LET s == task[t]
    IN /\ s.pc = "settle"
       /\ \/ task' = [task EXCEPT ![t] =
                        [Log(s, "settled", s.opps[s.idx].id, "return")
                           EXCEPT !.idx = @ + 1, !.pc = "loopHead"]]
          \/ task' = [task EXCEPT ![t] = Caught(s, "onTradeSettled")]
       /\ UNCHANGED <<running, activeTrades, config, orch, clock, permits, orphans>>

\* `await this.riskManager.onTradeSuccess/onTradeFailure(...)` settles;
\* logDecision is called
SettleReturn(t) ==
    LET s == task[t]
    IN /\ s.pc = "settle"
       /\ \/ task' = [task EXCEPT ![t] =
                        [Log(s, "settled", s.opps[s.idx].id, "return") EXCEPT !.pc = "append"]]
          \/ task' = [task EXCEPT ![t] = Caught(s, "onTradeSettled")]
       /\ UNCHANGED <<running, activeTrades, config, orch, clock, permits, orphans>>

\* `await this.logDecision(...)` settles: without a decision logger it returns at
\* once; with one, decisionLogger.append(record) returns or throws.  The loop
\* moves to the next opportunity.
AppendReturn(t) ==
    LET s == task[t]
        o == s.opps[s.idx]
    IN /\ s.pc = "append"
       /\ IF config.hasDecisionLogger
          THEN \E thrown \in BOOLEAN :
                 task' = [task EXCEPT ![t] =
                    IF thrown
                    THEN Caught(Log(s, "append.throw", o.id, "throw"), "append")
                    ELSE [Log(s, "append", o.id,
                              DecisionRecord(o, s.pending.action, s.pending.reason,
                                             s.pending.plannedSize, s.pending.txHash))
                            EXCEPT !.idx = @ + 1, !.pc = "loopHead"]]
          ELSE task' = [task EXCEPT ![t] = [s EXCEPT !.idx = @ + 1, !.pc = "loopHead"]]
       /\ UNCHANGED <<running, activeTrades, config, orch, clock, permits, orphans>>

----------------------------------------------------------------------------
(* SimpleOrchestrator: start, stop and the ticks of the interval timer *)

Strategies == <<"Hedging", "Endgame", "QuickFlip">>

\* one executeStrategies() invocation: the strategy it is awaiting and the
\* strategies it has started so far
IdleTick == [pc |-> "idle", ran |-> <<>>]

\* isRunning, the start() calls awaiting positionTracker.start(), the live
\* interval timers, whether executionTimer holds a handle, and the ticks
NewOrchestrator ==
    [isRunning |-> FALSE, starting |-> 0, timers |-> 0, executionTimer |-> FALSE,
     ticks |-> [i \in 1..MaxTicks |-> IdleTick]]

\* start() up to `await this.positionTracker.start()`
OrchStartCall ==
    /\ orch.starting + orch.timers < MaxTimers
    /\ orch' = IF orch.isRunning THEN orch ELSE [orch EXCEPT !.starting = @ + 1]
    /\ UNCHANGED <<running, activeTrades, config, permits, orphans, task, clock>>

\* positionTracker.start() settles: isRunning is set and setInterval creates
\* a timer, or start() rejects
OrchStartResume ==
    /\ orch.starting > 0
    /\ \/ orch' = [orch EXCEPT !.starting = @ - 1, !.isRunning = TRUE,
                               !.timers = @ + 1, !.executionTimer = TRUE]
       \/ orch' = [orch EXCEPT !.starting = @ - 1]
    /\ UNCHANGED <<running, activeTrades, config, permits, orphans, task, clock>>

\* an interval timer fires: executeStrategies() runs up to its first await,
\* inside hedgingStrategy.execute()
OrchTick(i) ==
    /\ orch.timers > 0
    /\ orch.ticks[i].pc \in {"idle", "done"}
    /\ orch' = IF orch.isRunning
               THEN [orch EXCEPT !.ticks[i] = [pc |-> Strategies[1], ran |-> <<Strategies[1]>>]]
               ELSE orch
    /\ UNCHANGED <<running, activeTrades, config, permits, orphans, task, clock>>

\* the strategy a tick awaits returns or throws (runStrategy catches): the
\* next strategy is started, or executeStrategies() returns
OrchStrategyReturn(i) ==
    LET tick == orch.ticks[i]
        k == Len(tick.ran)
    IN /\ tick.pc \notin {"idle", "done"}
       /\ orch' = IF k < Len(Strategies)
                  THEN [orch EXCEPT !.ticks[i] = [pc |-> Strategies[k + 1],
                                                  ran |-> Append(tick.ran, Strategies[k + 1])]]
                  ELSE [orch EXCEPT !.ticks[i].pc = "done"]
       /\ UNCHANGED <<running, activeTrades, config, permits, orphans, task, clock>>

\* stop(): clears the timer executionTimer holds
OrchStop ==
    /\ orch.isRunning
    /\ orch' = [orch EXCEPT !.isRunning = FALSE, !.executionTimer = FALSE,
                            !.timers = IF orch.executionTimer THEN @ - 1 ELSE @]
    /\ UNCHANGED <<running, activeTrades, config, permits, orphans, task, clock>>

----------------------------------------------------------------------------
(* ArbitrageEngine.start with its clock: startedAt, elapsed, waitMs *)

Max(a, b) == IF a >= b THEN a ELSE b

\* mutant: the wait is not clamped at zero
WaitMsUnclamped(scanIntervalMs, elapsed) == scanIntervalMs - elapsed

\* Math.max(0, this.config.scanIntervalMs - elapsed)
WaitMs(scanIntervalMs, elapsed) == Max(0, scanIntervalMs - elapsed)

\* the clock before start(): config.scanIntervalMs, Date.now(), and the
\* locals of the loop; previous holds the start, the elapsed time and the
\* wait of the iteration before the current one
NoIteration == [startedAt |-> 0, elapsed |-> 0, waitMs |-> 0, slept |-> FALSE]
NewClock(scanIntervalMs) ==
    [scanIntervalMs |-> scanIntervalMs, now |-> 0, pc |-> "idle",
     startedAt |-> 0, elapsed |-> 0, waitMs |-> 0, previous |-> NoIteration]

\* start(): running is set, startedAt = Date.now(), scanOnce(startedAt) is
\* called. The clock follows one loop at a time: a start() while the loop it
\* follows is still in its scan or its sleep only sets running, and that loop
\* goes on.
TimedStart ==
    /\ ~running
    /\ running' = TRUE
    /\ clock' = IF clock.pc \in {"idle", "ended"}
                THEN [clock EXCEPT !.pc = "scan", !.startedAt = clock.now,
                                   !.elapsed = 0, !.waitMs = 0, !.previous = NoIteration]
                ELSE clock
    /\ UNCHANGED <<activeTrades, config, permits, orphans, task, orch>>

\* scanOnce resolves d ms after it was called; elapsed and waitMs are computed
\* and the timer is set
TimedScanResolved(d) ==
    /\ clock.pc = "scan"
    /\ clock.now + d <= MaxNow
    /\ LET elapsed == (clock.now + d) - clock.startedAt
       IN clock' = [clock EXCEPT !.now = @ + d, !.pc = "sleep", !.elapsed = elapsed,
                                 !.waitMs = WaitMs(clock.scanIntervalMs, elapsed)]
    /\ UNCHANGED <<running, activeTrades, config, permits, orphans, task, orch>>

\* the timer fires, late ms after waitMs have passed; `while (this.running)`
\* is evaluated and the next iteration begins, or start() returns
TimedSleepDone(late) ==
    /\ clock.pc = "sleep"
    /\ clock.now + clock.waitMs + late <= MaxNow
    /\ LET t == clock.now + clock.waitMs + late
       IN clock' = IF running
                   THEN [clock EXCEPT !.now = t, !.pc = "scan", !.startedAt = t,
                                      !.elapsed = 0, !.waitMs = 0,
                                      !.previous = [startedAt |-> clock.startedAt,
                                                    elapsed |-> clock.elapsed,
                                                    waitMs |-> clock.waitMs,
                                                    slept |-> TRUE]]
                   ELSE [clock EXCEPT !.now = t, !.pc = "ended"]
    /\ UNCHANGED <<running, activeTrades, config, permits, orphans, task, orch>>

----------------------------------------------------------------------------
(* Specifications *)

\* the engine after its constructor
EngineInit(caps, loggers) ==
    /\ running = FALSE
    /\ activeTrades = 0
    /\ config \in [maxConcurrentTrades : caps, hasDecisionLogger : loggers]
    /\ permits = SemaphorePermits
    /\ orphans = NoOrphans
    /\ task = [t \in Tasks |-> IdleTask]

InitWith(caps, loggers) ==
    /\ EngineInit(caps, loggers)
    /\ orch = NewOrchestrator
    /\ clock = NewClock(MaxInterval)

\* the order-book fan-out of one scan
FetchStep(t, outcomes) ==
    \E i \in DOMAIN task[t].cb :
       \/ LimiterWith(t, i)
       \/ FetchYesReturn(t, i, outcomes)
       \/ FetchNoReturn(t, i, outcomes)

\* the opportunity loop of one scan
OpportunityStep(t, reasons, results) ==
    \/ ScanReturns(t)
    \/ HandleOpportunity(t, reasons)
    \/ GasReturn(t)
    \/ SubmittedReturn(t)
    \/ ExecuteReturn(t, results)
    \/ SettleReturn(t)
    \/ AppendReturn(t)

\* the usual answers of the risk manager and of the executor: a denial with a
\* text, a success with transaction hashes, a failure with a text
UsualReasons == {"EXPOSURE_LIMIT"}
UsualResults ==
    { r \in ExecutionResults : IF r.status = "failed" THEN r.reason = "REJECTED"
                                                      ELSE r.txHashes # <<>> }

OrphanStep == OrphanAcquire \/ OrphanYesReturn \/ OrphanNoReturn

\* One control flow: a single start() loop, stopped and started again only after
\* it has ended, or single scanOnce() calls.
Init == InitWith(0..MaxCap, BOOLEAN)

Next ==
    \/ StartCall(1)
    \/ Stop
    \/ ScanOnceCall(1)
    \/ LoopAfterScan(1)
    \/ SleepDone(1)
    \/ GetActiveMarketsReturn(1, SeqMaxMarkets, orphans = NoOrphans)
    \/ FetchStep(1, Outcomes)
    \/ FindOpportunities(1, MaxOpps)
    \/ OpportunityStep(1, UsualReasons, UsualResults)
    \/ OrphanStep

Spec == Init /\ [][Next]_vars

\* Opportunity handling: scanOnce() calls over no market, with every answer
\* of the risk manager and of the executor, with and without a DecisionLogger.
NextTrade ==
    \/ ScanOnceCall(1)
    \/ GetActiveMarketsReturn(1, 0, TRUE)
    \/ FindOpportunities(1, TradeMaxOpps)
    \/ OpportunityStep(1, DecisionReasons, ExecutionResults)

SpecTrade == InitWith({1}, BOOLEAN) /\ [][NextTrade]_vars

\* The orchestrator alone: start(), stop(), timer ticks and strategy returns.
NextOrch ==
    \/ OrchStartCall
    \/ OrchStartResume
    \/ OrchStop
    \/ \E i \in 1..MaxTicks : OrchTick(i)
    \/ \E i \in 1..MaxTicks : OrchStrategyReturn(i)

SpecOrch == InitWith({1}, {FALSE}) /\ [][NextOrch]_vars

\* The start() loop against the clock: every scan interval and scan duration.
InitTimed ==
    /\ EngineInit({1}, {FALSE})
    /\ orch = NewOrchestrator
    /\ clock \in {NewClock(i) : i \in 0..MaxInterval}

NextTimed ==
    \/ TimedStart
    \/ Stop
    \/ \E d \in 0..MaxElapsed : TimedScanResolved(d)
    \/ \E late \in 0..MaxLate : TimedSleepDone(late)

SpecTimed == InitTimed /\ [][NextTimed]_vars

\* Snapshot building: scanOnce() calls over a few markets with every provider
\* outcome; the strategy finds at most one opportunity.
NextSnap ==
    \/ ScanOnceCall(1)
    \/ GetActiveMarketsReturn(1, SnapMaxMarkets, orphans = NoOrphans)
    \/ FetchStep(1, Outcomes)
    \/ FindOpportunities(1, 1)
    \/ OpportunityStep(1, UsualReasons, UsualResults)
    \/ OrphanStep

SpecSnap == InitWith({1}, {TRUE}) /\ [][NextSnap]_vars

\* The limiter: scanOnce() calls over more markets than permits, a new scan
\* starting while callbacks of an aborted one are still alive; fetches succeed or
\* fail with an infrastructure error, the strategy finds nothing.
NextFetch ==
    \/ ScanOnceCall(1)
    \/ GetActiveMarketsReturn(1, MaxMarkets, OrphanTotal <= MaxOrphans)
    \/ FetchStep(1, {"ok", "error"})
    \/ FindOpportunities(1, 0)
    \/ ScanReturns(1)
    \/ OrphanStep

SpecFetch == InitWith({1}, {FALSE}) /\ [][NextFetch]_vars

\* Any calls of start(), stop() and scanOnce() on one engine, overlapping or not;
\* the provider lists no market.
NextAny ==
    \/ \E t \in Tasks :
         \/ StartCall(t)
         \/ ScanOnceCall(t)
         \/ LoopAfterScan(t)
         \/ SleepDone(t)
         \/ GetActiveMarketsReturn(t, 0, TRUE)
         \/ FindOpportunities(t, 1)
         \/ OpportunityStep(t, UsualReasons, UsualResults)
    \/ Stop

SpecAny == InitWith(1..MaxCap, {FALSE}) /\ [][NextAny]_vars

\* The loops alone: any calls of start() and stop() on one engine; the provider
\* lists no market and the strategy finds nothing.
NextLoops ==
    \/ \E t \in Tasks :
         \/ StartCall(t)
         \/ LoopAfterScan(t)
         \/ SleepDone(t)
         \/ GetActiveMarketsReturn(t, 0, TRUE)
         \/ FindOpportunities(t, 0)
         \/ ScanReturns(t)
    \/ Stop

SpecLoops == InitWith(0..MaxCap, BOOLEAN) /\ [][NextLoops]_vars

\* The single control flow with the scheduling the runtime gives it: every
\* collaborator call returns or throws, every timer fires, a waiting callback
\* gets a free permit.  start(), stop() and scanOnce() calls are up to the caller.
Progress ==
    \/ LoopAfterScan(1)
    \/ SleepDone(1)
    \/ GetActiveMarketsReturn(1, SeqMaxMarkets, orphans = NoOrphans)
    \/ FetchStep(1, Outcomes)
    \/ FindOpportunities(1, FairMaxOpps)
    \/ OpportunityStep(1, UsualReasons, UsualResults)

NextFair ==
    \/ StartCall(1)
    \/ Stop
    \/ ScanOnceCall(1)
    \/ Progress
    \/ OrphanStep

SpecFair == Init /\ [][NextFair]_vars /\ WF_vars(Progress) /\ WF_vars(OrphanStep)

----------------------------------------------------------------------------
(* Properties *)

LoopScanning(t) == task[t].kind = "loop" /\ task[t].pc \in ScanPcs

LoopIterating(t) ==
    task[t].kind = "loop" /\ task[t].pc \in ScanPcs \cup {"scanResolved", "sleep"}

Sides == {"yes", "no"}

\* the provider outcomes seen so far by the callbacks of s
OutcomesOf(s) == {s.cb[i][side].outcome : i \in DOMAIN s.cb, side \in Sides}

AllDone(s) == \A i \in DOMAIN s.cb : s.cb[i].phase = "done"

Called(s, ops) == \E k \in DOMAIN s.calls : s.calls[k].op \in ops

ProfitOf(s, id) == (CHOOSE o \in {s.opps[k] : k \in DOMAIN s.opps} : o.id = id).estProfitUsd

\* getOrderBookTop calls in flight
InFlight ==
    Cardinality({c \in UNION {{<<t, i>> : i \in DOMAIN task[t].cb} : t \in Tasks} :
                    task[c[1]].cb[c[2]].phase \in {"yes", "no"}})
    + orphans.yes + orphans.no

\* C1: whenever a scanOnce invocation has resolved, activeTrades is 0, whatever
\* the collaborators returned or threw.
C1_ActiveTradesZeroAfterScan ==
    \A t \in Tasks : task[t].pc = "scanResolved" => activeTrades = 0

\* C2: while one start() loop or one scanOnce call runs, activeTrades never
\* exceeds config.maxConcurrentTrades; with cap 1 it never reaches 2.
C2_ActiveTradesWithinCap == activeTrades <= config.maxConcurrentTrades

\* cap 1, two opportunities: the second one's execute is in flight after the
\* first one was executed and settled, and activeTrades is 1
C2_Witness ==
    /\ config.maxConcurrentTrades = 1
    /\ task[1].pc = "execute"
    /\ task[1].idx = 2
    /\ Called(task[1], {"onTradeSuccess"})
    /\ activeTrades = 1

\* C3: within one scan, of two opportunities handled, the one with the strictly
\* higher estimated profit has its canExecute, and its execute, strictly first.
C3_HandledInProfitOrder ==
    \A t \in Tasks :
      LET c == task[t].calls
      IN \A i, j \in DOMAIN c :
           ( /\ c[i].op \in {"canExecute", "execute"}
             /\ c[j].op = c[i].op
             /\ ProfitOf(task[t], c[i].id) > ProfitOf(task[t], c[j].id) ) => i < j

\* the strategy returned profit 5 first and profit 10 second; both were executed,
\* the second one first
C3_Witness ==
    LET c == task[1].calls
    IN \E i, j \in DOMAIN c :
         /\ i < j
         /\ c[i].op = "execute" /\ c[i].id = 2
         /\ c[j].op = "execute" /\ c[j].id = 1
         /\ ProfitOf(task[1], 2) > ProfitOf(task[1], 1)

\* C4: at every instant at most SemaphorePermits getOrderBookTop calls are in
\* flight, for market lists longer than that and any completion order.
C4_InFlightWithinPermits == InFlight <= SemaphorePermits

\* more markets than permits: every permit is taken and a callback waits
C4_Witness ==
    /\ Len(task[1].cb) > SemaphorePermits
    /\ InFlight = SemaphorePermits
    /\ Unsettled(task[1], "queued") # {}

\* C5: for any sequence of start() and stop() calls at most one loop is
\* iterating, and no two loop-driven scans are in progress at the same time.
C5_ScansNeverOverlap ==
    /\ Cardinality({t \in Tasks : LoopIterating(t)}) <= 1
    /\ Cardinality({t \in Tasks : LoopScanning(t)}) <= 1

\* C6: a start() call made while running is true returns at once: it changes
\* neither running nor activeTrades nor any other coroutine, and starts no loop.
C6_StartIdempotent ==
    [][\A t \in Tasks :
         ( /\ running
           /\ Free(t)
           /\ task'[t] # task[t]
           /\ task'[t].kind = "loop" )
         => /\ task'[t].pc = "startSkipped"
            /\ UNCHANGED <<running, activeTrades, config, orch, clock, permits, orphans>>
            /\ \A u \in Tasks \ {t} : task'[u] = task[u]
            /\ {u \in Tasks : LoopIterating(u)}' = {u \in Tasks : LoopIterating(u)}]_vars

\* a second start() returned at once while the loop of the first is iterating
C6_Witness ==
    \E t, u \in Tasks :
       /\ running
       /\ task[t].pc = "startSkipped"
       /\ LoopIterating(u)
       /\ Cardinality({v \in Tasks : LoopIterating(v)}) = 1

\* C7: after stop(), with no further start(), the loop begins no scan once its
\* sleep has ended, and the promise returned by start() eventually resolves.
C7_StopHaltsLoop ==
    /\ [][(task[1].pc = "sleep" /\ ~running /\ task'[1] # task[1])
            => task'[1].pc = "startResolved"]_vars
    /\ (LoopIterating(1) /\ ~running) ~> (task[1].pc = "startResolved")

\* the loop has ended after stop()
C7_Witness == task[1].kind = "loop" /\ task[1].pc = "startResolved" /\ ~running

\* C8: a not-found failure of getOrderBookTop becomes the zeroed, failed result
\* and is not propagated: it never aborts the scan, every market still gets its
\* snapshot and findOpportunities is still called.
C8_NotFoundIsRecoverable ==
    \A t \in Tasks :
      LET s == task[t]
      IN /\ \A i \in DOMAIN s.cb, side \in Sides :
              s.cb[i][side].outcome = "notfound"
              => /\ s.cb[i][side].top = ZeroTop
                 /\ s.cb[i][side].failed
                 /\ ~s.cb[i][side].thrown
                 /\ s.cb[i].phase # "threw" \/ "error" \in OutcomesOf(s)
         /\ ("notfound" \in OutcomesOf(s) /\ "error" \notin OutcomesOf(s))
              => /\ s.err # "getOrderBookTop"
                 /\ s.pc # "fetching"
                      => /\ Called(s, {"findOpportunities"})
                         /\ Len(s.snapshots) = Len(s.cb)
                         /\ \A i \in DOMAIN s.cb :
                              /\ s.snapshots[i].marketId = i
                              /\ s.snapshots[i].yesTop = s.cb[i].yes.top
                              /\ s.snapshots[i].noTop = s.cb[i].no.top

\* two markets, one side of one of them not found: findOpportunities was called
\* with both snapshots
C8_Witness ==
    LET s == task[1]
    IN /\ s.pc = "loopHead"
       /\ Len(s.cb) >= 2
       /\ "notfound" \in OutcomesOf(s)
       /\ \E i \in DOMAIN s.cb : s.cb[i].yes.outcome = "ok" /\ s.cb[i].no.outcome = "ok"
       /\ Called(s, {"findOpportunities"})
       /\ Len(s.snapshots) = Len(s.cb)

\* C9: any other getOrderBookTop error propagates and aborts the scan:
\* findOpportunities is not called and no opportunity is handled.
C9_OtherErrorAbortsScan ==
    \A t \in Tasks :
      LET s == task[t]
      IN "error" \in OutcomesOf(s)
         => /\ s.pc = "scanResolved"
            /\ s.err = "getOrderBookTop"
            /\ \E i \in DOMAIN s.cb : s.cb[i].phase = "threw"
            /\ ~Called(s, {"findOpportunities", "canExecute", "ensureGasBalance",
                           "onTradeSubmitted", "execute", "onTradeSuccess",
                           "onTradeFailure", "append"})

\* a fetch failed with an infrastructure error in a scan over several markets
C9_Witness ==
    /\ "error" \in OutcomesOf(task[1])
    /\ Len(task[1].cb) >= 2
    /\ task[1].pc = "scanResolved"

\* C10: when snapshot building ends without an abort, orderbookFailures is the
\* number of sides that failed as not-found and marketsWithOrderbookFailures
\* the number of markets with such a side, in any completion order; both are 0
\* when a scan begins.
C10_FailureCounters ==
    \A t \in Tasks :
      LET s == task[t]
          doneCbs == {i \in DOMAIN s.cb : s.cb[i].phase = "done"}
      IN /\ s.pc = "getMarkets"
              => s.orderbookFailures = 0 /\ s.marketsWithOrderbookFailures = 0
         /\ s.pc = "fetching"
              => /\ s.orderbookFailures =
                      Cardinality({<<i, side>> \in doneCbs \X Sides :
                                      s.cb[i][side].outcome = "notfound"})
                 /\ s.marketsWithOrderbookFailures =
                      Cardinality({i \in doneCbs :
                                      \E side \in Sides : s.cb[i][side].outcome = "notfound"})

\* snapshot building has ended: one market failed on both sides, another on one
C10_Witness ==
    LET s == task[1]
    IN /\ s.pc = "fetching"
       /\ AllDone(s)
       /\ \E i, j \in DOMAIN s.cb :
            /\ s.cb[i].yes.outcome = "notfound" /\ s.cb[i].no.outcome = "notfound"
            /\ s.cb[j].yes.outcome = "ok" /\ s.cb[j].no.outcome = "notfound"
       /\ s.orderbookFailures = 3
       /\ s.marketsWithOrderbookFailures = 2

\* the top a snapshot must hold for a token, given what the provider answered
ExpectedTop(tokenId, outcome) ==
    IF outcome = "notfound" THEN ZeroTop ELSE ProviderTop(tokenId)

\* C11: when every fetch returned or raised only not-found, the snapshots
\* handed to findOpportunities are one per market, the i-th for the i-th
\* market, with the zero top for a not-found side and the provider's top for
\* a fetched side, whatever the order the fetches completed in.
C11_SnapshotsPerMarket ==
    \A t \in Tasks :
      LET s == task[t]
      IN (Called(s, {"findOpportunities"}) /\ s.cb # <<>>)
         => /\ Len(s.snapshots) = Len(s.cb)
            /\ \A i \in DOMAIN s.cb :
                 /\ s.snapshots[i].marketId = i
                 /\ s.snapshots[i].yesTokenId = YesTokenId(i)
                 /\ s.snapshots[i].noTokenId = NoTokenId(i)
                 /\ s.snapshots[i].yesTop = ExpectedTop(YesTokenId(i), s.cb[i].yes.outcome)
                 /\ s.snapshots[i].noTop = ExpectedTop(NoTokenId(i), s.cb[i].no.outcome)

\* markets M1 and M2, only M2's NO token is not found
C11_Witness ==
    LET s == task[1]
    IN /\ Called(s, {"findOpportunities"})
       /\ Len(s.cb) = 2 /\ Len(s.snapshots) = 2
       /\ s.cb[1].yes.outcome = "ok" /\ s.cb[1].no.outcome = "ok"
       /\ s.cb[2].yes.outcome = "ok" /\ s.cb[2].no.outcome = "notfound"
       /\ s.snapshots[2].noTop = ZeroTop
       /\ s.snapshots[2].yesTop = ProviderTop(YesTokenId(2))
       /\ s.snapshots[1].yesTop = ProviderTop(YesTokenId(1))
       /\ s.snapshots[1].noTop = ProviderTop(NoTokenId(1))
       /\ s.marketsWithOrderbookFailures = 1
       /\ s.orderbookFailures = 1

\* the collaborator calls logged for the opportunity with this id
OpsFor(s, id) == {s.calls[k].op : k \in {j \in DOMAIN s.calls : s.calls[j].id = id}}

\* the decision records appended for the opportunity with this id
AppendsFor(s, id) == {k \in DOMAIN s.calls : s.calls[k].op = "append" /\ s.calls[k].id = id}

\* the opportunities whose handleOpportunity call has returned
HandledIds(s) == {s.opps[k].id : k \in 1..(s.idx - 1)}

\* canExecute answered allowed = false
IsDenial(c) == c.op = "canExecute" /\ ~c.info.allowed /\ ~c.info.thrown

\* the handling of a denied opportunity is awaiting its decision record
DeniedNow(s) == s.pc = "append" /\ IsDenial(s.calls[Len(s.calls)])

C13_ScanNeverRejects ==
    /\ [](\A t \in Tasks :
            /\ task[t].pc # "scanRejected"
            /\ task[t].err # "none" => task[t].pc = "scanResolved")
    /\ \A t \in Tasks :
          (task[t].kind = "loop" /\ task[t].pc = "scanResolved" /\ task[t].err # "none")
          ~> (task[t].pc = "getMarkets" \/ ~running)

\* the scan of a running loop was aborted by a throwing executor
C13_Witness ==
    /\ running
    /\ task[1].kind = "loop"
    /\ task[1].pc = "scanResolved"
    /\ task[1].err = "execute"

\* C14: a scan that follows an aborted scan handles the opportunities an
\* engine that never had the error would handle: with a cap of at least one
\* and one control flow, every opportunity of a scan that returns normally.
C14_NextScanAsFresh ==
    \A t \in Tasks :
      LET s == task[t]
      IN (s.pc = "scanResolved" /\ s.err = "none" /\ config.maxConcurrentTrades >= 1)
         => s.idx > Len(s.opps)

\* every callback of every fan-out has returned or thrown
AllCallbacksFinished ==
    /\ orphans = NoOrphans
    /\ \A t \in Tasks : \A i \in DOMAIN task[t].cb :
          task[t].cb[i].phase \notin {"queued", "yes", "no"}

\* C15: the limiter releases a callback's permit when the callback returns
\* and when it throws: the permits held are exactly those of the callbacks
\* that are running, never more than the cap, and none is held once every
\* callback has finished.
C15_LimiterReleases ==
    /\ permits \in 0..SemaphorePermits
    /\ SemaphorePermits - permits = InFlight
    /\ AllCallbacksFinished => permits = SemaphorePermits

\* a fan-out over more markets than permits was aborted by a throwing fetch,
\* the callbacks left behind have finished, and every permit is back
C15_Witness ==
    /\ task[1].err = "getOrderBookTop"
    /\ Len(task[1].cb) > SemaphorePermits
    /\ AllCallbacksFinished
    /\ permits = SemaphorePermits

\* the opportunity with this id
OppOf(s, id) == CHOOSE o \in {s.opps[k] : k \in DOMAIN s.opps} : o.id = id

\* executor.execute returned a result of one of these statuses
IsResult(c, statuses) == c.op = "execute.result" /\ c.info.status \in statuses

\* one record at most for the opportunity, and exactly one once its
\* handleOpportunity call has returned with a DecisionLogger configured
OneRecord(s, id) ==
    /\ Cardinality(AppendsFor(s, id)) <= 1
    /\ id \in HandledIds(s)
         => Cardinality(AppendsFor(s, id)) = (IF config.hasDecisionLogger THEN 1 ELSE 0)

FailureIsRecorded(Expected(_)) ==
    \A t \in Tasks :
      LET s == task[t]
      IN \A k \in DOMAIN s.calls :
           IsResult(s.calls[k], Statuses \ {"submitted", "dry_run"})
           => LET id == s.calls[k].id
                  result == s.calls[k].info
              IN /\ "onTradeSuccess" \notin OpsFor(s, id)
                 /\ \E f \in DOMAIN s.calls :
                      /\ s.calls[f].op = "onTradeFailure"
                      /\ s.calls[f].id = id
                      /\ s.calls[f].info = Expected(result)
                 /\ OneRecord(s, id)
                 /\ \A a \in AppendsFor(s, id) :
                      /\ s.calls[a].info.action = "skip"
                      /\ s.calls[a].info.reason = Expected(result)
                      /\ s.calls[a].info.planned_size = None
                      /\ s.calls[a].info.tx_hash = None
                 /\ \/ id \in HandledIds(s)
                    \/ s.pc \in {"settle", "append"}
                    \/ s.err \in {"onTradeSettled", "append"}

\* result.reason if present, otherwise result.status
ReasonIfPresent(result) ==
    IF result.reason = Undefined THEN result.status ELSE result.reason

\* result.reason if present and not empty, otherwise result.status
ReasonIfNotEmpty(result) ==
    IF result.reason \in {Undefined, ""} THEN result.status ELSE result.reason

ExecutesInFlight(s) ==
    Cardinality({k \in DOMAIN s.calls : s.calls[k].op = "execute"})
    - Cardinality({k \in DOMAIN s.calls : s.calls[k].op = "execute.result"})
    - (IF s.err = "execute" THEN 1 ELSE 0)

\* the place of the opportunity with this id in the sorted list
PlaceOf(s, id) == CHOOSE k \in DOMAIN s.opps : s.opps[k].id = id

\* the call that ends the handling of an opportunity: the decision append
\* with a DecisionLogger; without one the denial, the failed gas check or the
\* return of onTradeSuccess / onTradeFailure
EndsHandling(c) ==
    IF config.hasDecisionLogger THEN c.op = "append"
    ELSE \/ c.op = "settled"
         \/ IsDenial(c)
         \/ c.op = "ensureGasBalance.result" /\ ~c.info

\* C18: opportunities of a scan are handled strictly one after the other: at
\* most one executor.execute call is in flight, and the calls made for one
\* opportunity are consecutive, in the order of the sorted list: the first
\* call for the next opportunity comes right after the call that completed
\* the previous one's execute, settle and decision append.
C18_HandlingIsSequential ==
    \A t \in Tasks :
      LET s == task[t]
          c == s.calls
      IN /\ ExecutesInFlight(s) \in {0, 1}
         /\ ExecutesInFlight(s) = 1 <=> s.pc = "execute"
         /\ \A j \in 2..Len(c) :
              (c[j - 1].id >= 1 /\ c[j].id # c[j - 1].id)
              => /\ c[j].id >= 1
                 /\ PlaceOf(s, c[j - 1].id) < PlaceOf(s, c[j].id)
                 /\ EndsHandling(c[j - 1])

\* two opportunities were executed in one scan, the second after the first
\* was settled and recorded
C18_Witness ==
    LET c == task[1].calls
    IN /\ config.hasDecisionLogger
       /\ \E i, j \in DOMAIN c :
            /\ i < j
            /\ c[i].op = "append" /\ c[i].id = task[1].opps[1].id
            /\ c[i].info.action = "trade"
            /\ c[j].op = "execute.result" /\ c[j].id = task[1].opps[2].id

\* the opportunities from place idx on have had no collaborator call and no
\* decision record
RestUntouched(s) == \A k \in s.idx..Len(s.opps) : OpsFor(s, s.opps[k].id) = {}

\* the calls of a scan, without their arguments and answers
CallsMade(s) == [k \in DOMAIN s.calls |-> <<s.calls[k].op, s.calls[k].id>>]

\* C19: once activeTrades >= maxConcurrentTrades is seen before an
\* opportunity the loop ends: the scan returns at once, that opportunity and
\* the lower-ranked ones have no canExecute call, no executor call and no
\* decision record, a new scan starts from an empty list, and with a cap of
\* 0 no opportunity is ever handled.
C19_LoopStopsAtCap ==
    /\ [](\A t \in Tasks :
            LET s == task[t]
            IN /\ config.maxConcurrentTrades = 0
                    => \A k \in DOMAIN s.calls : s.calls[k].id = 0
               /\ (s.pc = "loopHead" /\ activeTrades >= config.maxConcurrentTrades)
                    => RestUntouched(s)
               /\ (s.pc = "scanResolved" /\ s.err = "none" /\ s.idx <= Len(s.opps))
                    => /\ activeTrades >= config.maxConcurrentTrades
                       /\ RestUntouched(s)
               /\ s.pc \in {"getMarkets", "fetching", "sleep"}
                    => /\ s.opps = <<>>
                       /\ \A k \in DOMAIN s.calls : s.calls[k].id = 0)
    /\ [][\A t \in Tasks :
            ( /\ task[t].pc = "loopHead"
              /\ activeTrades >= config.maxConcurrentTrades
              /\ task[t]' # task[t] )
            => /\ task[t]'.pc = "scanResolved"
               /\ task[t]'.err = "none"
               /\ CallsMade(task[t]') = CallsMade(task[t])
               /\ task[t]'.idx = task[t].idx]_vars

\* a scan found two opportunities with activeTrades at the cap and returned
\* without handling either
C19_Witness ==
    LET s == task[1]
    IN /\ s.pc = "scanResolved" /\ s.err = "none"
       /\ Len(s.opps) = 2 /\ s.idx = 1
       /\ activeTrades >= config.maxConcurrentTrades
       /\ RestUntouched(s)

\* the opportunity with this id was refused or failed: denied, short of gas,
\* or executed with a failure status
Refused(s, id) ==
    \E k \in DOMAIN s.calls :
       /\ s.calls[k].id = id
       /\ \/ IsDenial(s.calls[k])
          \/ s.calls[k].op = "ensureGasBalance.result" /\ ~s.calls[k].info
          \/ IsResult(s.calls[k], Statuses \ {"submitted", "dry_run"})

CallsFor(s, id, op) == {k \in DOMAIN s.calls : s.calls[k].id = id /\ s.calls[k].op = op}

\* C21: no retries: within a scan canExecute and executor.execute are called
\* at most once per opportunity, execute is not called again after it
\* returned a failure status, and a loop whose scan was aborted goes to its
\* sleep, not into another scan.
C21_NoRetries ==
    /\ [](\A t \in Tasks :
            LET s == task[t]
            IN \A k \in DOMAIN s.opps :
                 LET id == s.opps[k].id
                 IN /\ Cardinality(CallsFor(s, id, "canExecute")) <= 1
                    /\ Cardinality(CallsFor(s, id, "execute")) <= 1
                    /\ \A r \in CallsFor(s, id, "execute.result") :
                         \A e \in CallsFor(s, id, "execute") : e < r)
    /\ [][\A t \in Tasks :
            ( /\ task[t].kind = "loop"
              /\ task[t].pc = "scanResolved"
              /\ task[t]' # task[t] )
            => task[t]'.pc = "sleep"]_vars

\* an execute that returned a failure status was not repeated: the scan went
\* on to the next opportunity
C21_Witness ==
    LET s == task[1]
    IN /\ Len(s.opps) = 2
       /\ \E r \in CallsFor(s, s.opps[1].id, "execute.result") :
            s.calls[r].info.status = "failed"
       /\ Cardinality(CallsFor(s, s.opps[1].id, "execute")) = 1
       /\ CallsFor(s, s.opps[2].id, "canExecute") # {}

\* the strategies that are executing, one entry per tick that awaits one
Executing == {i \in 1..MaxTicks : orch.ticks[i].pc \notin {"idle", "done"}}

\* C22: SimpleOrchestrator never runs two strategy executions in parallel:
\* each tick runs Hedging, Endgame, QuickFlip in this order, one awaited
\* before the next starts, and no tick starts a strategy while a strategy of
\* an earlier tick is still executing.
C22_StrategiesNeverOverlap ==
    /\ Cardinality(Executing) <= 1
    /\ \A i \in 1..MaxTicks :
          /\ orch.ticks[i].ran = SubSeq(Strategies, 1, Len(orch.ticks[i].ran))
          /\ i \in Executing => orch.ticks[i].pc = Strategies[Len(orch.ticks[i].ran)]

\* ensureGasBalance answered ok = false
IsLowGas(c) == c.op = "ensureGasBalance.result" /\ ~c.info

\* the handling of an opportunity short of gas is awaiting its decision record
LowGasNow(s) == s.pc = "append" /\ IsLowGas(s.calls[Len(s.calls)])

OpSeqFor(s, id) ==
    LET own == SelectSeq(s.calls, LAMBDA c : c.id = id)
    IN [k \in DOMAIN own |-> IF own[k].op = "append.throw" THEN "append" ELSE own[k].op]

IsPrefix(a, b) == Len(a) <= Len(b) /\ a = SubSeq(b, 1, Len(a))

\* the calls made for an admitted opportunity, with their logged answers,
\* settle being onTradeSuccess or onTradeFailure
AdmittedOrder(settle) ==
    <<"canExecute", "ensureGasBalance", "ensureGasBalance.result", "onTradeSubmitted",
      "execute", "execute.result", settle, "settled", "append">>

\* C24: for an admitted opportunity the calls come in the order canExecute,
\* ensureGasBalance, onTradeSubmitted, execute, one of onTradeSuccess and
\* onTradeFailure, decision append: execute is called only after
\* onTradeSubmitted returned, activeTrades is incremented in the step that
\* calls onTradeSubmitted, and every execute that returns has exactly one
\* settle callback.
C24_CallOrder ==
    /\ [](\A t \in Tasks :
            LET s == task[t]
            IN /\ s.pc = "submitted" => activeTrades >= 1
               /\ \A k \in DOMAIN s.opps :
                    LET id == s.opps[k].id
                    IN /\ "onTradeSubmitted" \in OpsFor(s, id)
                            => \E settle \in {"onTradeSuccess", "onTradeFailure"} :
                                 IsPrefix(OpSeqFor(s, id), AdmittedOrder(settle))
                       /\ Cardinality(CallsFor(s, id, "execute.result")) =
                            Cardinality(CallsFor(s, id, "onTradeSuccess"))
                            + Cardinality(CallsFor(s, id, "onTradeFailure")))
    /\ [][\A t \in Tasks :
            (task[t].pc = "gas" /\ task[t]'.pc = "submitted")
            => activeTrades' = activeTrades + 1]_vars

\* an admitted opportunity went through all its calls, ending with the
\* record of its failure
C24_Witness ==
    LET s == task[1]
    IN \E k \in DOMAIN s.opps :
         OpSeqFor(s, s.opps[k].id) = AdmittedOrder("onTradeFailure")

\* C25: with a DecisionLogger, every opportunity whose handleOpportunity
\* call has returned (denied, short of gas, executed with success or with a
\* failure status) has exactly one appended record, a skip or a trade, and an
\* opportunity that was deferred by the cap or cut off by an aborting error
\* has none.
C25_OneRecordPerHandled ==
    \A t \in Tasks :
      LET s == task[t]
      IN config.hasDecisionLogger
         => \A k \in DOMAIN s.opps :
              LET id == s.opps[k].id
              IN IF k < s.idx
                 THEN /\ Cardinality(AppendsFor(s, id)) = 1
                      /\ \A a \in AppendsFor(s, id) :
                           s.calls[a].info.action \in {"skip", "trade"}
                 ELSE AppendsFor(s, id) = {}

\* the first opportunity was traded and recorded, the second was cut off by
\* a throwing executor
C25_Witness ==
    LET s == task[1]
    IN /\ config.hasDecisionLogger
       /\ Len(s.opps) = 2
       /\ s.pc = "scanResolved" /\ s.err = "execute" /\ s.idx = 2
       /\ \E a \in AppendsFor(s, s.opps[1].id) : s.calls[a].info.action = "trade"
       /\ AppendsFor(s, s.opps[2].id) = {}

\* the opportunities ranked after the one at place idx have had no call and
\* no record
LaterUntouched(s) == \A k \in (s.idx + 1)..Len(s.opps) : OpsFor(s, s.opps[k].id) = {}

\* C26: when a risk-manager, executor or decision-logger call throws while
\* opportunity k is handled, the scan ends there: no call is made and no
\* record is appended for an opportunity ranked after k.
C26_ThrowAbortsLoop ==
    \A t \in Tasks :
      LET s == task[t]
      IN s.err \in OpportunityErrors
         => /\ s.pc = "scanResolved"
            /\ s.idx \in DOMAIN s.opps
            /\ LaterUntouched(s)

\* onTradeSubmitted threw for the first of two opportunities
C26_Witness ==
    LET s == task[1]
    IN /\ s.pc = "scanResolved" /\ s.err = "onTradeSubmitted"
       /\ Len(s.opps) = 2 /\ s.idx = 1
       /\ OpsFor(s, s.opps[2].id) = {}

\* C27: after each scan the loop sleeps exactly max(0, scanIntervalMs -
\* elapsed), elapsed being the duration of that scan: the sleep is never
\* negative; when the scan finished within the interval the next scan starts
\* at least scanIntervalMs after it started; when the scan overran the
\* interval the sleep is zero.
C27_SleepIsClampedRemainder ==
    LET i == clock.scanIntervalMs
        p == clock.previous
    IN /\ clock.pc = "sleep"
          => /\ clock.elapsed = clock.now - clock.startedAt
             /\ clock.waitMs = (IF i - clock.elapsed > 0 THEN i - clock.elapsed ELSE 0)
             /\ clock.waitMs >= 0
       /\ (clock.pc = "scan" /\ p.slept)
          => /\ p.waitMs = (IF i - p.elapsed > 0 THEN i - p.elapsed ELSE 0)
             /\ p.waitMs >= 0
             /\ clock.startedAt >= p.startedAt + p.elapsed + p.waitMs
             /\ p.elapsed <= i => clock.startedAt - p.startedAt >= i
             /\ p.elapsed >= i => p.waitMs = 0

\* a scan that overran the interval was followed by a sleep of zero, and the
\* next scan has started
C27_Witness ==
    /\ clock.pc = "scan" /\ clock.previous.slept
    /\ clock.scanIntervalMs > 0
    /\ clock.previous.elapsed > clock.scanIntervalMs
    /\ clock.previous.waitMs = 0

\* an executor result with this status and these transaction hashes
SuccessResult(status, txHashes) ==
    [status |-> status, reason |-> Undefined, txHashes |-> txHashes]

\* the status text of a call: the result of execute and the reason of the
\* decision that follows it
WithoutStatus(c) ==
    IF c.op = "execute.result" THEN [c EXCEPT !.info = [@ EXCEPT !.status = "-"]]
    ELSE IF c.op = "onTradeSuccess" THEN [c EXCEPT !.info = "-"]
    ELSE c

\* two states of a scan that differ in nothing but the status text
SameButStatus(a, b) ==
    /\ [a EXCEPT !.calls = <<>>, !.pending = DecisionArgs("none", "none", None, None)]
         = [b EXCEPT !.calls = <<>>, !.pending = DecisionArgs("none", "none", None, None)]
    /\ a.pending.action = b.pending.action
    /\ a.pending.plannedSize = b.pending.plannedSize
    /\ a.pending.txHash = b.pending.txHash
    /\ Len(a.calls) = Len(b.calls)
    /\ \A j \in DOMAIN a.calls : WithoutStatus(a.calls[j]) = WithoutStatus(b.calls[j])

\* C28: dry_run is handled as submitted: wherever execute is awaited, the
\* two results lead to states that differ in the status text only, with
\* onTradeSuccess called, onTradeFailure not, and a pending record of action
\* trade; every returned execute decrements activeTrades by one whatever the
\* status; and an opportunity whose execute returned either status has the
\* same calls in the same order and, when written, a trade record.
C28_DryRunAsSubmitted ==
    /\ [](\A t \in Tasks :
            LET s == task[t]
            IN /\ s.pc = "execute"
                  => \A h \in {<<>>, <<"0xa", "0xb">>} :
                       LET sub == AfterExecute(s, SuccessResult("submitted", h))
                           dry == AfterExecute(s, SuccessResult("dry_run", h))
                       IN /\ SameButStatus(sub, dry)
                          /\ dry.pc = "settle"
                          /\ dry.pending.action = "trade"
                          /\ dry.calls[Len(dry.calls)].op = "onTradeSuccess"
               /\ \A k \in DOMAIN s.calls :
                    IsResult(s.calls[k], {"submitted", "dry_run"})
                      => LET id == s.calls[k].id
                         IN /\ IsPrefix(OpSeqFor(s, id), AdmittedOrder("onTradeSuccess"))
                            /\ "onTradeFailure" \notin OpsFor(s, id)
                            /\ \A a \in AppendsFor(s, id) :
                                 /\ s.calls[a].info.action = "trade"
                                 /\ s.calls[a].info.reason = s.calls[k].info.status)
    /\ [][\A t \in Tasks :
            (task[t].pc = "execute" /\ task'[t].pc = "settle")
              => activeTrades' = activeTrades - 1]_vars

\* a dry_run result was settled with onTradeSuccess and recorded as a trade
C28_Witness ==
    LET s == task[1]
    IN \E k \in DOMAIN s.calls :
         /\ IsResult(s.calls[k], {"dry_run"})
         /\ \E a \in AppendsFor(s, s.calls[k].id) : s.calls[a].info.action = "trade"
         /\ "onTradeSuccess" \in OpsFor(s, s.calls[k].id)

\* program locations of handleOpportunity and of the loop around it
HandlingPcs == {"loopHead", "gas", "submitted", "execute", "settle", "append"}

PlanFields ==
    {"marketId", "yesTokenId", "noTokenId", "yesAsk", "noAsk", "sizeUsd", "edgeBps",
     "estProfitUsd"}

\* C29: the engine changes no field of an Opportunity: the list the strategy
\* returned stays as ranked while its opportunities are handled; the plan
\* passed to execute has exactly the eight plan fields, each equal to the
\* opportunity's; every call of the loop is made for an opportunity of that
\* list, up to the one being handled; and a decision record carries the
\* opportunity's values.
C29_OpportunityUnchanged ==
    /\ [](\A t \in Tasks :
            LET s == task[t]
            IN \A k \in DOMAIN s.calls :
                 LET c == s.calls[k]
                 IN c.id > 0
                    => /\ \E j \in DOMAIN s.opps : j <= s.idx /\ s.opps[j].id = c.id
                       /\ c.op = "execute"
                            => /\ DOMAIN c.info = PlanFields
                               /\ \A f \in PlanFields : c.info[f] = OppOf(s, c.id)[f]
                       /\ c.op = "append"
                            => LET o == OppOf(s, c.id)
                               IN /\ c.info.market_id = o.marketId
                                  /\ c.info.yes_ask = o.yesAsk
                                  /\ c.info.no_ask = o.noAsk
                                  /\ c.info.edge_bps = o.edgeBps
                                  /\ c.info.liquidity = o.liquidityUsd
                                  /\ c.info.spread_bps = o.spreadBps
                                  /\ c.info.est_profit_usd = o.estProfitUsd)
    /\ [][\A t \in Tasks :
            task[t].pc \in HandlingPcs => task'[t].opps = task[t].opps]_vars

\* the second-ranked opportunity was executed and recorded
C29_Witness ==
    LET s == task[1]
    IN /\ Len(s.opps) = 2
       /\ CallsFor(s, s.opps[2].id, "execute") # {}
       /\ AppendsFor(s, s.opps[2].id) # {}

\* the summary lines a scan has logged
Summaries(s) == {k \in DOMAIN s.calls : s.calls[k].op = "logger.info"}

\* strategy.findOpportunities returned in this scan
Ranked(s) ==
    \E k \in DOMAIN s.calls : s.calls[k].op = "findOpportunities" /\ s.calls[k].info = "return"

\* a summary line comes right after findOpportunities returned, and every call
\* made for an opportunity comes after it
SummaryInPlace(s) ==
    \A k \in Summaries(s) :
      /\ k > 1
      /\ s.calls[k - 1].op = "findOpportunities" /\ s.calls[k - 1].info = "return"
      /\ \A j \in DOMAIN s.calls : s.calls[j].id > 0 => j > k

\* a summary line gives the number of opportunities, the number of markets
\* when there is none and otherwise market, edge, estimated profit and size
\* of the most profitable one, and the two failure counters of the scan
SummaryText(s) ==
    \A k \in Summaries(s) :
      s.calls[k].info # None
        => LET line == s.calls[k].info[1]
           IN /\ line.count = Len(s.opps)
              /\ line.orderbookFailures = s.orderbookFailures
              /\ line.marketsWithOrderbookFailures = s.marketsWithOrderbookFailures
              /\ IF s.opps = <<>>
                 THEN line.top = None /\ line.markets = Some(Len(s.cb))
                 ELSE /\ line.markets = None
                      /\ Len(line.top) = 1
                      /\ line.top[1].marketId = s.opps[1].marketId
                      /\ line.top[1].edgeBps = s.opps[1].edgeBps
                      /\ line.top[1].estProfitUsd = s.opps[1].estProfitUsd
                      /\ line.top[1].sizeUsd = s.opps[1].sizeUsd
                      /\ \A j \in DOMAIN s.opps :
                           line.top[1].estProfitUsd >= s.opps[j].estProfitUsd

\* C30 as stated: every scan that has resolved logged exactly one summary
\* line, with the opportunity count or the top opportunity and both failure
\* counters, after the ranking and before any opportunity was handled.
C30_OneSummaryPerScan ==
    \A t \in Tasks :
      LET s == task[t]
      IN /\ s.pc = "scanResolved" => Cardinality(Summaries(s)) = 1
         /\ SummaryInPlace(s)
         /\ SummaryText(s)

\* C30: a scan logs exactly one summary line once findOpportunities has
\* returned and none when it was aborted before that; the line gives the
\* opportunity count or the top opportunity and both failure counters, and
\* it comes after the ranking and before any opportunity is handled.
C30_OneSummaryPerRankedScan ==
    \A t \in Tasks :
      LET s == task[t]
      IN /\ Cardinality(Summaries(s)) = (IF Ranked(s) THEN 1 ELSE 0)
         /\ SummaryInPlace(s)
         /\ SummaryText(s)

\* a scan with order-book failures found two opportunities and logged its line
C30_Witness ==
    LET s == task[1]
    IN \E k \in Summaries(s) :
         /\ s.calls[k].info # None
         /\ s.calls[k].info[1].count = 2
         /\ s.calls[k].info[1].orderbookFailures > 0
         /\ s.opps[1].estProfitUsd > s.opps[2].estProfitUsd
         /\ s.opps[1].id = 2

\* C31: when a scan has resolved, no order-book fetch of one of its callbacks
\* is in flight and no callback of it is still waiting for a permit to start
\* one, also when the scan ended on a fetch that threw.
C31_NoFetchOutlivesScan ==
    \A t \in Tasks :
      task[t].pc = "scanResolved"
        => /\ orphans.yes + orphans.no = 0
           /\ orphans.queued = 0
           /\ \A i \in DOMAIN task[t].cb : task[t].cb[i].phase \notin {"queued", "yes", "no"}

\* the scanOnce invocations that passed the cap check and incremented
\* activeTrades for the opportunity they are handling
Admitted == {t \in Tasks : task[t].pc \in {"submitted", "execute"}}

\* C32: overlapping scanOnce invocations on one engine cannot both pass the
\* cap check and increment: the opportunities admitted and not yet executed
\* never outnumber maxConcurrentTrades, and activeTrades never exceeds it.
C32_AdmissionIsAtomic ==
    /\ Cardinality(Admitted) <= config.maxConcurrentTrades
    /\ Cardinality(Admitted) > 1 => activeTrades <= config.maxConcurrentTrades

\* activeTrades was 0 when this scan began
StartedIdle(s) ==
    s.calls # <<>> /\ s.calls[1].op = "getActiveMarkets" /\ s.calls[1].info = 0

\* C33: in a scan that began with activeTrades = 0, with a cap of at least 1
\* and no collaborator call throwing, activeTrades is 0 again at every cap
\* check, so the cap defers nothing: every opportunity ranked before the
\* current one has been handled, and a scan that returns has handled all of
\* them, however many there are.
C33_CapNeverDefers ==
    \A t \in Tasks :
      LET s == task[t]
      IN (StartedIdle(s) /\ config.maxConcurrentTrades >= 1 /\ s.err = "none")
         => /\ s.pc = "loopHead" => activeTrades = 0
            /\ s.pc \in HandlingPcs \cup {"scanResolved"}
                 => \A k \in DOMAIN s.opps :
                      k < s.idx => "canExecute" \in OpsFor(s, s.opps[k].id)
            /\ (s.pc = "scanResolved" /\ Ranked(s)) => s.idx = Len(s.opps) + 1

\* with a cap of 1 a scan executed two opportunities and returned
C33_Witness ==
    LET s == task[1]
    IN /\ StartedIdle(s) /\ s.pc = "scanResolved" /\ s.err = "none"
       /\ config.maxConcurrentTrades = 1
       /\ Len(s.opps) = 2
       /\ \A k \in 1..2 : CallsFor(s, s.opps[k].id, "execute.result") # {}
       /\ activeTrades = 0

\* C34: stop() changes only the running flag: the step that clears it
\* leaves activeTrades, the scan in progress, the sleep in progress and the
\* limiter as they are; a scan goes on whether or not the engine is running,
\* so a scan of the loop that returns has handled every opportunity the cap
\* let through, and a loop that has ended came out of its sleep.
C34_StopOnlyClearsRunning ==
    /\ [][(running /\ ~running')
            => UNCHANGED <<activeTrades, config, permits, orphans, task>>]_vars
    /\ [](\A t \in Tasks :
            LET s == task[t]
            IN (s.kind = "loop" /\ s.pc = "scanResolved" /\ s.err = "none" /\ Ranked(s))
               => \/ s.idx > Len(s.opps)
                  \/ activeTrades >= config.maxConcurrentTrades)
    /\ [][\A t \in Tasks :
            (task[t].kind = "loop" /\ task[t].pc \in ScanPcs /\ task[t]' # task[t])
              => task[t]'.pc \in ScanPcs \cup {"scanResolved"}]_vars
    /\ [][\A t \in Tasks :
            (task[t]' # task[t] /\ task[t]'.pc = "startResolved")
              => task[t].pc = "sleep" /\ ~running]_vars

\* the loop's scan is executing its second opportunity while the engine is
\* stopped
C34_Witness ==
    LET s == task[1]
    IN /\ ~running
       /\ s.kind = "loop" /\ s.pc = "execute" /\ s.idx = 2
       /\ activeTrades = 1

\* C35: whatever the interleaving of start() and stop() calls of the
\* orchestrator, at most one interval timer is live at a time, and once
\* stop() has cleared isRunning no timer is live.
C35_AtMostOneTimer ==
    /\ orch.timers <= 1
    /\ ~orch.isRunning => orch.timers = 0

\* C36: activeTrades is never negative: it counts at least the invocations
\* that have incremented it and not yet decremented it, and the only step
\* that lowers it is the return of an execute call awaited after such an
\* increment, which lowers it by one.
C36_ActiveTradesNeverNegative ==
    /\ [](activeTrades >= 0 /\ activeTrades >= Cardinality(Admitted))
    /\ [][activeTrades' < activeTrades
            => /\ activeTrades' = activeTrades - 1
               /\ \E t \in Tasks :
                    /\ task[t].pc = "execute" /\ task[t]'.pc = "settle"
                    /\ CallsFor(task[t], task[t].opps[task[t].idx].id, "onTradeSubmitted") # {}]_vars

\* an execute call has returned and activeTrades is back at 0
C36_Witness ==
    /\ task[1].pc = "settle"
    /\ activeTrades = 0
    /\ CallsFor(task[1], task[1].opps[task[1].idx].id, "execute.result") # {}

\* C37: an appended decision record has status submitted exactly when its
\* action is trade and status skipped otherwise; a dry_run execution is
\* recorded with action trade, reason dry_run and status submitted; a record
\* that is not a trade carries neither a planned size nor a tx hash.
C37_RecordStatusFollowsAction ==
    \A t \in Tasks :
      LET s == task[t]
      IN \A k \in DOMAIN s.calls :
           /\ s.calls[k].op = "append"
                => LET r == s.calls[k].info
                   IN /\ r.action \in {"trade", "skip"}
                      /\ r.status \in {"submitted", "skipped"}
                      /\ r.status = "submitted" <=> r.action = "trade"
                      /\ r.action # "trade"
                           => r.planned_size = None /\ r.tx_hash = None
           /\ IsResult(s.calls[k], {"dry_run"})
                => \A a \in AppendsFor(s, s.calls[k].id) :
                     /\ s.calls[a].info.action = "trade"
                     /\ s.calls[a].info.reason = "dry_run"
                     /\ s.calls[a].info.status = "submitted"

\* one scan recorded a skip with status skipped and a dry_run execution with
\* status submitted, a planned size and a tx hash
C37_Witness ==
    LET s == task[1]
    IN \E a, b \in DOMAIN s.calls :
         /\ s.calls[a].op = "append" /\ s.calls[b].op = "append"
         /\ s.calls[a].info.action = "skip" /\ s.calls[a].info.status = "skipped"
         /\ s.calls[b].info.reason = "dry_run" /\ s.calls[b].info.status = "submitted"
         /\ s.calls[b].info.planned_size # None /\ s.calls[b].info.tx_hash # None

====
